---- MODULE Spec2Model ----
(***************************************************************************)
(* AlphaLearn front end: the usePortfolio hook (order execution and        *)
(* average-cost accounting on the client-held portfolio), the trade form   *)
(* that submits orders, the leaderboard WebSocket hook and its page, the   *)
(* stock chart's sampling, the app context and the routing middleware.     *)
(***************************************************************************)
EXTENDS Integers, Sequences, FiniteSets, TLC

(***************************************************************************)
(* Bounds of the model.                                                    *)
(***************************************************************************)
\* Significand width of the binary floating-point format the numbers are
\* held in (53 in a JavaScript engine; scaled down so that every intermediate
\* value fits the model checker's integers).
MantBits == 14
\* Calls of the hook (buyStock, sellStock, refreshPortfolio) made in one
\* behaviour after the mount's fetch; any number of them may overlap.
MaxCalls == 2

VARIABLES
    portfolio,   \* usePortfolio: the portfolio state (NULL until loaded)
    isLoading,   \* usePortfolio: the isLoading state
    error,       \* usePortfolio: the error state (NULL or a message)
    pending,     \* calls awaiting their setTimeout(500), oldest first
    ret,         \* what the call that settled last returned
    nCalls,      \* calls made so far
    quantity,      \* TradePage: the quantity state, a string
    selectedStock, \* TradePage: the selectedStock state ("" when none)
    orderType,     \* TradePage: the orderType state
    user,          \* app context: state.user (NULL when logged out)
    token,         \* localStorage holds an auth token
    cookie,        \* the alphalearn_token cookie: set, and when it expires
    lastTokenOp,   \* the last of setToken and removeToken to be called
    inFlight,      \* trade requests awaiting the server's response
    submitted,     \* the order handleTrade passed on last
    mounted,           \* useLeaderboardWebSocket: mountedRef.current
    ws,                \* readyState of wsRef.current ("none" when null)
    timers,            \* reconnect timers set and not yet fired or cleared
    reconnectAttempts, \* reconnectAttempts.current
    isConnected,       \* the isConnected state
    wsError,           \* the error state of the hook
    leaderboard,       \* the leaderboard state
    scheduled,         \* delays scheduled since the attempt count restarted
    received,          \* the frame delivered to onmessage last
    outbox,            \* frames the hook has sent on its socket
    closeCalls,        \* the close() calls made: readyState and code
    attached,          \* sockets that have the hook's handlers attached
    lastClose,         \* code of the close event delivered last (0: none)
    useWebSocket,      \* LeaderboardPage: the useWebSocket state
    restLeaderboard,   \* app context: state.leaderboard
    restLoading,       \* app context: state.isLoading.leaderboard
    restPending,       \* refreshLeaderboard requests awaiting their answer
    rendered,          \* LeaderboardPage: dependencies its effects ran with
    data,              \* StockChart: the points of the chart data
    sampled,           \* StockChart: what sampleDataPerDay returned
    state,           \* AppProvider: the state, but for its user field
    lastRefreshTime, \* AppProvider: lastRefreshTime.current (0 when absent)
    now,             \* Date.now()
    calls,           \* calls of the context awaiting a response, oldest first
    backend,         \* trades the backend has executed
    settled,         \* the buyStock or sellStock call that settled last step
    limited,         \* the canRefresh calls of the last step
    day,             \* days since the application was opened first
    response         \* the middleware's answer to the last page request

pvars == <<portfolio, isLoading, error, pending, ret, nCalls>>
tvars == <<quantity, selectedStock, orderType, user, token, cookie, lastTokenOp,
           inFlight, submitted>>
wvars == <<mounted, ws, timers, reconnectAttempts, isConnected, wsError,
           leaderboard, scheduled, received, outbox, closeCalls, attached,
           lastClose>>
lvars == <<useWebSocket, restLeaderboard, restLoading, restPending, rendered>>
cvars == <<data, sampled>>
avars == <<state, lastRefreshTime, now, calls, backend, settled, limited>>
mvars == <<day, response>>
vars == <<pvars, tvars, wvars, lvars, cvars, avars, mvars>>

NULL == "null"
\* the portfolio state before the first fetch settles (null)
NoPortfolio == [loaded |-> FALSE]

(***************************************************************************)
(* Numbers.  A JavaScript number is a binary floating-point value; every   *)
(* arithmetic operator returns the exact result rounded to the nearest     *)
(* representable value, ties to even.  A number is held here as the        *)
(* integer count of units of 2^-FracBits; it is representable when it has  *)
(* at most MantBits significant bits.                                      *)
(***************************************************************************)
FracBits == MantBits - 1

RECURSIVE Pow2(_)
Pow2(n) == IF n = 0 THEN 1 ELSE 2 * Pow2(n - 1)

RECURSIVE BitLen(_)
BitLen(n) == IF n = 0 THEN 0 ELSE 1 + BitLen(n \div 2)

Abs(x) == IF x < 0 THEN -x ELSE x
Sgn(x) == IF x < 0 THEN -1 ELSE 1
Max(a, b) == IF a >= b THEN a ELSE b
Min(a, b) == IF a <= b THEN a ELSE b

\* h: a non-negative magnitude in half units, truncated; sticky: whether the
\* truncation dropped a non-zero remainder.  Rounds to MantBits significant
\* bits, nearest, ties to even; the result is in units.  d = 2^k is the
\* weight in half units of the last bit kept, k >= 1.
RoundAt(f, rem, half, sticky) ==
    IF rem > half \/ (rem = half /\ (sticky \/ f % 2 = 1))
    THEN (f + 1) * half
    ELSE f * half
RoundTo(h, sticky, d) == RoundAt(h \div d, h % d, d \div 2, sticky)
RoundHalf(h, sticky) == RoundTo(h, sticky, Pow2(Max(1, BitLen(h) - MantBits)))

\* The binary expansion of r/d continued for n more bits: <<quotient, remainder>>.
RECURSIVE LongDiv(_, _, _, _)
LongDiv(q, r, d, n) ==
    IF n = 0 THEN <<q, r>>
    ELSE IF 2 * r >= d THEN LongDiv(2 * q + 1, 2 * r - d, d, n - 1)
                       ELSE LongDiv(2 * q, 2 * r, d, n - 1)

\* The rational a/d (a >= 0, d > 0) as a number.
RoundPair(qr) == RoundHalf(qr[1], qr[2] # 0)
RoundQ(a, d) == RoundPair(LongDiv(a \div d, a % d, d, FracBits + 1))

\* A decimal literal of the source, num/den.
Lit(num, den) == Sgn(num) * RoundQ(Abs(num), den)
\* An integer-valued number.
Whole(n) == Lit(n, 1)

\* x + y, x - y
Add(x, y) == Sgn(x + y) * RoundHalf(2 * Abs(x + y), FALSE)
Sub(x, y) == Add(x, -y)
\* n * x for an integer-valued n (a share count, or the 100 of a percentage)
Mul(n, x) == Sgn(n * x) * RoundHalf(2 * Abs(n * x), FALSE)
\* x / y, y # 0
Div(x, y) == Sgn(x) * Sgn(y) * RoundQ(Abs(x), Abs(y))


Less(x, y) == x < y

(***************************************************************************)
(* usePortfolio: the data.                                                 *)
(***************************************************************************)
Symbols == {"AAPL", "TCS"}
ShareLots == {3, 10}
Prices == {Whole(100), Whole(200), Lit(5165, 10)}

\* The portfolio fetchPortfolio installs.
MockPortfolio ==
    [positions |->
        << [symbol |-> "AAPL", shares |-> 10, averageCost |-> Lit(1683, 10),
            currentValue |-> Lit(17250, 10), totalReturn |-> Lit(420, 10),
            totalReturnPercent |-> Lit(249, 100)],
           [symbol |-> "MSFT", shares |-> 5, averageCost |-> Lit(3205, 10),
            currentValue |-> Lit(165375, 100), totalReturn |-> Lit(5125, 100),
            totalReturnPercent |-> Lit(319, 100)] >>,
     totalValue |-> Lit(337875, 100),
     totalCost |-> Lit(32855, 10),
     totalReturn |-> Lit(9325, 100),
     totalReturnPercent |-> Lit(284, 100),
     cash |-> Lit(67145, 10)]

\* positions.find((p) => p.symbol === symbol): the index of the first match, 0 for none
Find(positions, symbol) ==
    LET hits == {i \in 1..Len(positions) : positions[i].symbol = symbol}
    IN  IF hits = {} THEN 0 ELSE CHOOSE i \in hits : \A j \in hits : i <= j

\* positions.filter((p) => p.symbol !== symbol)
RECURSIVE Without(_, _)
Without(positions, symbol) ==
    IF positions = << >> THEN << >>
    ELSE IF Head(positions).symbol = symbol THEN Without(Tail(positions), symbol)
    ELSE <<Head(positions)>> \o Without(Tail(positions), symbol)

\* positions.reduce((sum, p) => sum + p.shares * p.averageCost, 0)
RECURSIVE SumCost(_, _)
SumCost(sum, positions) ==
    IF positions = << >> THEN sum
    ELSE SumCost(Add(sum, Mul(Head(positions).shares, Head(positions).averageCost)),
                 Tail(positions))

\* positions.reduce((sum, p) => sum + p.currentValue, 0)
RECURSIVE SumValue(_, _)
SumValue(sum, positions) ==
    IF positions = << >> THEN sum
    ELSE SumValue(Add(sum, Head(positions).currentValue), Tail(positions))

(***************************************************************************)
(* buyStock, after its await.                                              *)
(***************************************************************************)
\* const cost = shares * price
OrderCost(shares, price) == Mul(shares, price)

\* mutant: the check rejects a cost equal to the cash
InsufficientFundsOrEqual(cash, cost) == ~Less(cost, cash)

\* if (portfolio.cash < cost) throw new Error("Insufficient funds")
InsufficientFunds(cash, cost) == Less(cash, cost)

\* totalCost / totalShares of the position bought into
NewAverageCost(oldShares, oldAvg, shares, price) ==
    Div(Add(Mul(oldShares, oldAvg), OrderCost(shares, price)), Whole(oldShares + shares))

\* the position object of the map's matching branch
BoughtInto(p, shares, price) ==
    LET totalShares    == p.shares + shares
        newAverageCost == NewAverageCost(p.shares, p.averageCost, shares, price)
    IN  [p EXCEPT !.shares = totalShares,
                  !.averageCost = newAverageCost,
                  !.currentValue = Mul(totalShares, price),
                  !.totalReturn = Mul(totalShares, Sub(price, newAverageCost)),
                  !.totalReturnPercent = Mul(100, Sub(Div(price, newAverageCost), Whole(1)))]

\* the position object pushed for a symbol not held
NewPosition(symbol, shares, price) ==
    [symbol |-> symbol, shares |-> shares, averageCost |-> price,
     currentValue |-> Mul(shares, price), totalReturn |-> Whole(0),
     totalReturnPercent |-> Whole(0)]

BuyPositions(positions, symbol, shares, price) ==
    IF Find(positions, symbol) # 0
    THEN [i \in 1..Len(positions) |->
             IF positions[i].symbol = symbol
             THEN BoughtInto(positions[i], shares, price)
             ELSE positions[i]]
    ELSE Append(positions, NewPosition(symbol, shares, price))

BuyCash(cash, cost) == Sub(cash, cost)

\* the object handed to setPortfolio
BuyPortfolio(pf, symbol, shares, price) ==
    LET updated   == BuyPositions(pf.positions, symbol, shares, price)
        newCost   == SumCost(Whole(0), updated)
        newValue  == SumValue(Whole(0), updated)
        newReturn == Sub(newValue, newCost)
    IN  [positions |-> updated,
         totalValue |-> newValue,
         totalCost |-> newCost,
         totalReturn |-> newReturn,
         totalReturnPercent |-> Mul(100, Div(newReturn, newCost)),
         cash |-> BuyCash(pf.cash, OrderCost(shares, price))]

\* NULL when the call goes through, the message of the Error thrown otherwise
BuyError(pf, symbol, shares, price) ==
    IF pf = NoPortfolio THEN "Portfolio not loaded"
    ELSE IF InsufficientFunds(pf.cash, OrderCost(shares, price)) THEN "Insufficient funds"
    ELSE NULL


(***************************************************************************)
(* sellStock, after its await.                                             *)
(***************************************************************************)
\* const saleValue = shares * price
SaleValue(shares, price) == Mul(shares, price)

\* mutant: selling the whole holding is refused
NotEnoughSharesOrEqual(held, shares) == held <= shares

\* if (position.shares < shares) throw new Error("Not enough shares")
NotEnoughShares(held, shares) == held < shares

\* mutant: a holding sold out is kept
SellsAllNever(held, shares) == FALSE

\* if (position.shares === shares): the position is removed
SellsAll(held, shares) == held = shares

\* mutant: the sale re-bases the average cost on the sale price
SoldFromRebased(p, shares, price) ==
    [p EXCEPT !.shares = p.shares - shares,
              !.averageCost = price,
              !.currentValue = Mul(p.shares - shares, price),
              !.totalReturn = Whole(0),
              !.totalReturnPercent = Whole(0)]

\* the position object of the map's matching branch
SoldFrom(p, shares, price) ==
    LET left == p.shares - shares
    IN  [p EXCEPT !.shares = left,
                  !.currentValue = Mul(left, price),
                  !.totalReturn = Sub(Mul(left, price), Mul(left, p.averageCost)),
                  !.totalReturnPercent = Mul(100, Sub(Div(price, p.averageCost), Whole(1)))]

SellPositions(positions, symbol, shares, price) ==
    IF SellsAll(positions[Find(positions, symbol)].shares, shares)
    THEN Without(positions, symbol)
    ELSE [i \in 1..Len(positions) |->
             IF positions[i].symbol = symbol
             THEN SoldFrom(positions[i], shares, price)
             ELSE positions[i]]

SellCash(cash, saleValue) == Add(cash, saleValue)

\* the object handed to setPortfolio
SellPortfolio(pf, symbol, shares, price) ==
    LET updated   == SellPositions(pf.positions, symbol, shares, price)
        newCost   == SumCost(Whole(0), updated)
        newValue  == SumValue(Whole(0), updated)
        newReturn == Sub(newValue, newCost)
    IN  [positions |-> updated,
         totalValue |-> newValue,
         totalCost |-> newCost,
         totalReturn |-> newReturn,
         totalReturnPercent |->
             IF newCost > 0 THEN Mul(100, Div(newReturn, newCost)) ELSE Whole(0),
         cash |-> SellCash(pf.cash, SaleValue(shares, price))]

\* NULL when the call goes through, the message of the Error thrown otherwise
SellError(pf, symbol, shares, price) ==
    IF pf = NoPortfolio THEN "Portfolio not loaded"
    ELSE IF Find(pf.positions, symbol) = 0 THEN "Position not found"
    ELSE IF NotEnoughShares(pf.positions[Find(pf.positions, symbol)].shares, shares)
         THEN "Not enough shares"
    ELSE NULL

(***************************************************************************)
(* usePortfolio: the calls.  Each awaits a 500 ms timer between its first  *)
(* statements and its body; timers of equal delay fire in the order they   *)
(* were set, so the calls in flight settle oldest first.  A call works on  *)
(* the portfolio of the render its callback was created in (seen).         *)
(***************************************************************************)
NoCall == [op |-> "none", symbol |-> NULL, shares |-> 0, price |-> 0,
           seen |-> NoPortfolio, prev |-> NoPortfolio, value |-> "undefined"]

\* a call in flight: the operation and the portfolio its closure holds
Call(op) == [op |-> op, seen |-> portfolio]

\* what a settled call leaves in ret: the call, its arguments, the portfolio
\* state it found when it settled (prev) and the value it returned
Returned(c, symbol, shares, price, value) ==
    [op |-> c.op, symbol |-> symbol, shares |-> shares, price |-> price,
     seen |-> c.seen, prev |-> portfolio, value |-> value]

\* the mount effect has called fetchPortfolio
PInit ==
    /\ portfolio = NoPortfolio
    /\ isLoading = TRUE
    /\ error = NULL
    /\ pending = << [op |-> "fetch", seen |-> NoPortfolio] >>
    /\ ret = NoCall
    /\ nCalls = 0

\* refreshPortfolio(), up to its await
StartFetch ==
    /\ nCalls < MaxCalls
    /\ isLoading' = TRUE
    /\ error' = NULL
    /\ pending' = Append(pending, Call("fetch"))
    /\ nCalls' = nCalls + 1
    /\ UNCHANGED <<portfolio, ret>>
    /\ UNCHANGED <<tvars, wvars, lvars, cvars, avars, mvars>>

\* buyStock(symbol, shares, price), up to its await.  Nothing reads the
\* arguments before the body runs: they are drawn in SettleBuy.
StartBuy ==
    /\ nCalls < MaxCalls
    /\ isLoading' = TRUE
    /\ error' = NULL
    /\ pending' = Append(pending, Call("buy"))
    /\ nCalls' = nCalls + 1
    /\ UNCHANGED <<portfolio, ret>>
    /\ UNCHANGED <<tvars, wvars, lvars, cvars, avars, mvars>>

\* sellStock(symbol, shares, price), up to its await
StartSell ==
    /\ nCalls < MaxCalls
    /\ isLoading' = TRUE
    /\ error' = NULL
    /\ pending' = Append(pending, Call("sell"))
    /\ nCalls' = nCalls + 1
    /\ UNCHANGED <<portfolio, ret>>
    /\ UNCHANGED <<tvars, wvars, lvars, cvars, avars, mvars>>

\* fetchPortfolio, from its await on
SettleFetch ==
    /\ pending # << >>
    /\ Head(pending).op = "fetch"
    /\ portfolio' = MockPortfolio
    /\ isLoading' = FALSE
    /\ ret' = Returned(Head(pending), NULL, 0, 0, "undefined")
    /\ pending' = Tail(pending)
    /\ UNCHANGED <<error, nCalls>>
    /\ UNCHANGED <<tvars, wvars, lvars, cvars, avars, mvars>>

\* buyStock, from its await on
SettleBuy ==
    \E symbol \in Symbols, shares \in ShareLots, price \in Prices :
        /\ pending # << >>
        /\ Head(pending).op = "buy"
        /\ LET c   == Head(pending)
               err == BuyError(c.seen, symbol, shares, price)
           IN  IF err = NULL
               THEN /\ portfolio' = BuyPortfolio(c.seen, symbol, shares, price)
                    /\ ret' = Returned(c, symbol, shares, price, "true")
                    /\ UNCHANGED error
               ELSE /\ error' = err
                    /\ ret' = Returned(c, symbol, shares, price, "false")
                    /\ UNCHANGED portfolio
        /\ isLoading' = FALSE
        /\ pending' = Tail(pending)
        /\ UNCHANGED nCalls
        /\ UNCHANGED <<tvars, wvars, lvars, cvars, avars, mvars>>

\* sellStock, from its await on
SettleSell ==
    \E symbol \in Symbols, shares \in ShareLots, price \in Prices :
        /\ pending # << >>
        /\ Head(pending).op = "sell"
        /\ LET c   == Head(pending)
               err == SellError(c.seen, symbol, shares, price)
           IN  IF err = NULL
               THEN /\ portfolio' = SellPortfolio(c.seen, symbol, shares, price)
                    /\ ret' = Returned(c, symbol, shares, price, "true")
                    /\ UNCHANGED error
               ELSE /\ error' = err
                    /\ ret' = Returned(c, symbol, shares, price, "false")
                    /\ UNCHANGED portfolio
        /\ isLoading' = FALSE
        /\ pending' = Tail(pending)
        /\ UNCHANGED nCalls
        /\ UNCHANGED <<tvars, wvars, lvars, cvars, avars, mvars>>

PNext == StartFetch \/ StartBuy \/ StartSell \/ SettleFetch \/ SettleBuy \/ SettleSell

(***************************************************************************)
(* TradePage: the order form, and the calls it makes into the app context  *)
(* and transactionAPI.                                                     *)
(***************************************************************************)
\* Longest text typed into the quantity field.
MaxQuantityLen == 2
\* Trade requests the server has not answered yet.
MaxInFlight == 1

\* the characters a quantity is typed from
Chars == {"-", ".", "0", "3"}
Digits == {"0", "1", "2", "3", "4", "5", "6", "7", "8", "9"}
DigitValue(c) ==
    CASE c = "0" -> 0 [] c = "1" -> 1 [] c = "2" -> 2 [] c = "3" -> 3
      [] c = "4" -> 4 [] c = "5" -> 5 [] c = "6" -> 6 [] c = "7" -> 7
      [] c = "8" -> 8 [] c = "9" -> 9
Typed == UNION {[1..n -> Chars] : n \in 0..MaxQuantityLen}

AllDigits(s) == \A i \in 1..Len(s) : s[i] \in Digits
Unsigned(s) == IF s # << >> /\ s[1] = "-" THEN Tail(s) ELSE s

\* <input type="number">: its value is the text typed when that is a number
\* (an optional "-", then digits, a fraction, or both), and "" otherwise
IsNumberText(s) ==
    LET body == Unsigned(s)
    IN  /\ body # << >>
        /\ \/ AllDigits(body)
           \/ \E i \in 1..(Len(body) - 1) :
                 /\ body[i] = "."
                 /\ AllDigits(SubSeq(body, 1, i - 1))
                 /\ AllDigits(SubSeq(body, i + 1, Len(body)))
InputValue(s) == IF IsNumberText(s) THEN s ELSE << >>

\* values of the JavaScript number type that parseInt returns
NaN == [nan |-> TRUE, val |-> 0]
Num(v) == [nan |-> FALSE, val |-> v]

RECURSIVE LeadingDigits(_)
LeadingDigits(s) ==
    IF s = << >> \/ s[1] \notin Digits THEN 0 ELSE 1 + LeadingDigits(Tail(s))

RECURSIVE Decimal(_)
Decimal(s) ==
    IF s = << >> THEN 0
    ELSE 10 * Decimal(SubSeq(s, 1, Len(s) - 1)) + DigitValue(s[Len(s)])

\* parseInt(s): an optional sign, then the longest run of digits; what
\* follows the digits is ignored, and no digits at all give NaN
parseInt(s) ==
    LET body == Unsigned(s)
        n    == LeadingDigits(body)
    IN  IF n = 0 THEN NaN
        ELSE Num((IF body = s THEN 1 ELSE -1) * Decimal(SubSeq(body, 1, n)))

\* max-age of the cookie setToken writes, in days
CookieMaxAge == 7
NoCookie == [set |-> FALSE, expires |-> 0]

\* setToken(token): localStorage and the cookie, which lasts max-age
setToken ==
    /\ token' = TRUE
    /\ cookie' = [set |-> TRUE, expires |-> day + CookieMaxAge]
    /\ lastTokenOp' = "setToken"

\* removeToken(): localStorage and the cookie
removeToken ==
    /\ token' = FALSE
    /\ cookie' = NoCookie
    /\ lastTokenOp' = "removeToken"

NoOrder == [op |-> "none", shares |-> NaN, sent |-> FALSE, error |-> NULL]

\* the error transactionAPI.buyStock and sellStock throw when no token is
\* stored
MustBeLoggedIn(op) ==
    IF op = "buy"
    THEN "You must be logged in to buy stocks. Please log in first."
    ELSE "You must be logged in to sell stocks. Please log in first."

transactionAPIUnchecked(op, shares, tok) ==
    [op |-> op, shares |-> shares, sent |-> TRUE, error |-> NULL]

\* transactionAPI.buyStock(stockId, shares) and sellStock(stockId, shares),
\* up to the request: tok is whether getToken() finds a token
transactionAPI(op, shares, tok) ==
    [op |-> op, shares |-> shares, sent |-> tok,
     error |-> IF tok THEN NULL ELSE MustBeLoggedIn(op)]

TInit ==
    /\ quantity = << >>
    /\ selectedStock = ""
    /\ orderType = "buy"
    /\ user = NULL
    /\ token = FALSE
    /\ cookie = NoCookie
    /\ lastTokenOp = "none"
    /\ inFlight = 0
    /\ submitted = NoOrder

\* the user types into the quantity field
SetQuantity ==
    /\ \E s \in Typed : quantity' = InputValue(s)
    /\ UNCHANGED <<selectedStock, orderType, user, token, cookie, lastTokenOp, inFlight, submitted>>
    /\ UNCHANGED <<pvars, wvars, lvars, cvars, avars, mvars>>

\* the user picks a stock from the list, or clears the selection
SetSelectedStock ==
    /\ \E s \in Symbols \cup {""} : selectedStock' = s
    /\ UNCHANGED <<quantity, orderType, user, token, cookie, lastTokenOp, inFlight, submitted>>
    /\ UNCHANGED <<pvars, wvars, lvars, cvars, avars, mvars>>

\* the user switches between the Buy and Sell tabs
SetOrderType ==
    /\ \E t \in {"buy", "sell"} : orderType' = t
    /\ UNCHANGED <<quantity, selectedStock, user, token, cookie, lastTokenOp, inFlight, submitted>>
    /\ UNCHANGED <<pvars, wvars, lvars, cvars, avars, mvars>>

\* login(email, password) succeeds: authAPI.login stores the token and the
\* context keeps the user
Login ==
    /\ user' = "user"
    /\ setToken
    /\ UNCHANGED <<quantity, selectedStock, orderType, inFlight, submitted>>
    /\ UNCHANGED <<pvars, wvars, lvars, cvars, avars, mvars>>

\* logout(): authAPI.logout removes the token and the context is reset
Logout ==
    /\ user' = NULL
    /\ removeToken
    /\ UNCHANGED <<quantity, selectedStock, orderType, inFlight, submitted>>
    /\ UNCHANGED <<pvars, wvars, lvars, cvars, avars, mvars>>

\* the token leaves localStorage while this page keeps its user (a logout
\* in another tab of the application)
TokenRemoved ==
    /\ token
    /\ removeToken
    /\ UNCHANGED <<quantity, selectedStock, orderType, user, inFlight, submitted>>
    /\ UNCHANGED <<pvars, wvars, lvars, cvars, avars, mvars>>

\* handleTrade, up to the request it awaits: the form's two checks, then
\* buyStock or sellStock of the context with parseInt(quantity), which
\* hands the order to transactionAPI; that sends it when a token is stored
\* and throws otherwise
HandleTrade ==
    /\ inFlight < MaxInFlight
    /\ IF selectedStock = "" \/ quantity = << >> \/ user = NULL
       THEN UNCHANGED <<submitted, inFlight>>
       ELSE /\ submitted' = transactionAPI(orderType, parseInt(quantity), token)
            /\ inFlight' = IF submitted'.sent THEN inFlight + 1 ELSE inFlight
    /\ UNCHANGED <<quantity, selectedStock, orderType, user, token, cookie, lastTokenOp>>
    /\ UNCHANGED <<pvars, wvars, lvars, cvars, avars, mvars>>

\* the server answers a trade request: on success handleTrade resets the
\* form, on failure it leaves it as it is
TradeAnswered ==
    /\ inFlight > 0
    /\ inFlight' = inFlight - 1
    /\ \/ selectedStock' = "" /\ quantity' = << >>
       \/ UNCHANGED <<selectedStock, quantity>>
    /\ UNCHANGED <<orderType, user, token, cookie, lastTokenOp, submitted>>
    /\ UNCHANGED <<pvars, wvars, lvars, cvars, avars, mvars>>

TNext ==
    \/ SetQuantity \/ SetSelectedStock \/ SetOrderType
    \/ Login \/ Logout \/ TokenRemoved
    \/ HandleTrade \/ TradeAnswered

(***************************************************************************)
(* useLeaderboardWebSocket: one socket at a time, reconnected after a      *)
(* close that was not normal.  cleanup() removes the handlers of the       *)
(* socket it drops, so only the socket in wsRef delivers events.  The URL  *)
(* is well formed and its port allowed, so new WebSocket does not throw.   *)
(***************************************************************************)
maxReconnectAttempts == 5

\* codes of the close events a server or the network produces
CloseCodes == {1000, 1001, 1006}
\* JavaScript values: undefined, numbers and strings
Undefined == [t |-> "undefined", n |-> 0, s |-> ""]
JsNumber(n) == [t |-> "number", n |-> n, s |-> ""]
JsString(s) == [t |-> "string", n |-> 0, s |-> s]
Truthy(x) == (x.t = "number" /\ x.n # 0) \/ (x.t = "string" /\ x.s # "")
\* a || b
OrElse(a, b) == IF Truthy(a) THEN a ELSE b
\* n.toString(), for the user ids of the model
NumberToString(n) == CASE n = 0 -> "0" [] n = 1 -> "1" [] n = 2 -> "2"

\* an entry of the leaderboard as the backend sends it: snake_case fields,
\* the camelCase ones absent
WireEntry(rank, id, name, value, return, positions) ==
    [rank |-> JsNumber(rank),
     user_id |-> JsNumber(id), userId |-> Undefined,
     full_name |-> Undefined, username |-> JsString(name),
     userName |-> Undefined,
     portfolio_value |-> JsNumber(value), portfolioValue |-> Undefined,
     total_return |-> JsNumber(return), totalReturn |-> Undefined,
     total_return_percent |-> JsNumber(return),
     totalReturnPercent |-> Undefined,
     invested_value |-> JsNumber(value - return), investedValue |-> Undefined,
     positions_value |-> JsNumber(positions), positionsValue |-> Undefined,
     cash_balance |-> JsNumber(value - positions), cashBalance |-> Undefined,
     active_positions |-> JsNumber(positions),
     activePositions |-> Undefined]

\* the leaderboards a frame or a REST answer carries: one trader who has
\* not traded yet, and two traders with a gain and a loss
Boards ==
    {<<WireEntry(1, 1, "ann", 5, 0, 0)>>,
     <<WireEntry(1, 2, "bob", 7, 2, 3), WireEntry(2, 1, "ann", 4, -1, 1)>>}

\* entry.user_id?.toString()
UserIdString(entry) ==
    IF entry.user_id.t = "number"
    THEN JsString(NumberToString(entry.user_id.n)) ELSE Undefined

transformLeaderboardData(apiData) ==
    [i \in 1..Len(apiData) |->
        LET entry == apiData[i]
        IN  [rank |-> entry.rank,
             userId |-> OrElse(UserIdString(entry), entry.userId),
             userName |-> OrElse(entry.full_name,
                                 OrElse(entry.username, entry.userName)),
             userAvatar |-> JsString("/placeholder-user.jpg"),
             portfolioValue |-> OrElse(entry.portfolio_value,
                                       entry.portfolioValue),
             totalReturn |-> OrElse(entry.total_return, entry.totalReturn),
             totalReturnPercent |-> OrElse(entry.total_return_percent,
                                           entry.totalReturnPercent),
             investedValue |-> OrElse(entry.invested_value,
                                      entry.investedValue),
             positionsValue |-> OrElse(entry.positions_value,
                                       entry.positionsValue),
             cashBalance |-> OrElse(entry.cash_balance, entry.cashBalance),
             activePositions |-> OrElse(entry.active_positions,
                                        OrElse(entry.activePositions,
                                               JsNumber(0)))]]

\* the mapping refreshLeaderboard applies to the entries of a REST answer
RestLeaderboard(leaderboardData) ==
    [i \in 1..Len(leaderboardData) |->
        LET entry == leaderboardData[i]
        IN  [rank |-> entry.rank,
             userId |-> JsString(NumberToString(entry.user_id.n)),
             userName |-> OrElse(entry.full_name, entry.username),
             userAvatar |-> JsString("/placeholder-user.jpg"),
             portfolioValue |-> entry.portfolio_value,
             totalReturn |-> entry.total_return,
             totalReturnPercent |-> entry.total_return_percent,
             investedValue |-> entry.invested_value,
             positionsValue |-> entry.positions_value,
             cashBalance |-> entry.cash_balance,
             activePositions |-> entry.active_positions]]
\* frames: the texts "pong" and "ping", a text that is not JSON, a JSON
\* object with a leaderboard array, a JSON array, and a JSON object without
\* a leaderboard array
Frames ==
    [kind : {"pong", "ping", "malformed", "object"}, board : {<< >>}]
        \cup [kind : {"wrapped", "array"}, board : Boards]
NoFrame == [kind |-> "none", board |-> << >>]

\* data.leaderboard && Array.isArray(data.leaderboard), or Array.isArray(data)
IsSnapshot(m) == m.kind \in {"wrapped", "array"}

ReconnectDelayLinear(attempts) == Min(1000 * (attempts + 1), 30000)
\* Math.min(1000 * Math.pow(2, reconnectAttempts.current), 30000)
ReconnectDelay(attempts) == Min(1000 * Pow2(attempts), 30000)

\* a timer set by onclose; ref: reconnectTimeoutRef.current is its id
Timer(delay) == [delay |-> delay, ref |-> TRUE]
\* the timers left once reconnectTimeoutRef names another one
Unreferenced(ts) == {[t EXCEPT !.ref = FALSE] : t \in ts}
UnclearedNone(ts) == ts
\* the timers left by clearTimeout(reconnectTimeoutRef.current)
Uncleared(ts) == {t \in ts : ~t.ref}

\* WebSocket.close(code, reason) throws for a code other than 1000 and
\* 3000..4999 (the reason "Component cleanup" is short enough)
CloseThrows(code) == code # 1000 /\ code \notin 3000..4999

cleanupAlwaysCloses(s, ts) ==
    [ws |-> "none", timers |-> Uncleared(ts), closed |-> s, threw |-> FALSE,
     detached |-> IF s = "none" THEN 0 ELSE 1]
\* cleanup() with wsRef.current in readyState s ("none": null) and the
\* timers ts: the socket and timers it leaves, the readyState of the socket
\* it called close(1000, ...) on ("none": no call), whether it threw, and
\* the number of sockets it took the handlers off
cleanup(s, ts) ==
    [ws     |-> "none",
     timers |-> Uncleared(ts),
     closed |-> IF s \in {"open", "connecting"} THEN s ELSE "none",
     threw  |-> s \in {"open", "connecting"} /\ CloseThrows(1000),
     detached |-> IF s = "none" THEN 0 ELSE 1]

\* the close() calls made so far, with the call of the cleanup result c
CloseCalled(c) ==
    IF c.closed = "none" THEN closeCalls
    ELSE closeCalls \cup {[state |-> c.closed, code |-> 1000]}

connectUncleaned(ts) ==
    IF ~mounted \/ ws = "open"
    THEN /\ timers' = ts
         /\ UNCHANGED <<ws, closeCalls, attached>>
    ELSE /\ timers' = ts
         /\ UNCHANGED closeCalls
         /\ attached' = attached + 1
         /\ ws' = "connecting"

\* connect(), with ts the timers pending when it is called: cleanup(), then
\* a new socket with the four handlers
connect(ts) ==
    IF ~mounted \/ ws = "open"
    THEN /\ timers' = ts
         /\ UNCHANGED <<ws, closeCalls, attached>>
    ELSE /\ timers' = cleanup(ws, ts).timers
         /\ closeCalls' = CloseCalled(cleanup(ws, ts))
         /\ attached' = attached - cleanup(ws, ts).detached + 1
         /\ ws' = "connecting"

oncloseUncounted(code, err) ==
    /\ ws' = "closed"
    /\ lastClose' = code
    /\ isConnected' = FALSE
    /\ IF code # 1000
       THEN /\ timers' = Unreferenced(timers)
                             \cup {Timer(ReconnectDelay(reconnectAttempts))}
            /\ scheduled' = Append(scheduled, ReconnectDelay(reconnectAttempts))
            /\ wsError' = err
       ELSE /\ wsError' = err
            /\ UNCHANGED <<timers, scheduled>>
    /\ UNCHANGED <<mounted, reconnectAttempts, leaderboard, received, outbox,
                   closeCalls, attached>>

oncloseAnyCode(code, err) ==
    /\ ws' = "closed"
    /\ lastClose' = code
    /\ isConnected' = FALSE
    /\ IF reconnectAttempts < maxReconnectAttempts
       THEN /\ timers' = Unreferenced(timers)
                             \cup {Timer(ReconnectDelay(reconnectAttempts))}
            /\ scheduled' = Append(scheduled, ReconnectDelay(reconnectAttempts))
            /\ wsError' = err
       ELSE /\ wsError' = "Unable to establish WebSocket connection after multiple attempts"
            /\ UNCHANGED <<timers, scheduled>>
    /\ UNCHANGED <<mounted, reconnectAttempts, leaderboard, received, outbox,
                   closeCalls, attached>>

\* the onclose handler, with err the error state when it is called
onclose(code, err) ==
    /\ ws' = "closed"
    /\ lastClose' = code
    /\ isConnected' = FALSE
    /\ IF code # 1000 /\ reconnectAttempts < maxReconnectAttempts
       THEN /\ timers' = Unreferenced(timers)
                             \cup {Timer(ReconnectDelay(reconnectAttempts))}
            /\ scheduled' = Append(scheduled, ReconnectDelay(reconnectAttempts))
            /\ wsError' = err
       ELSE /\ wsError' = IF reconnectAttempts >= maxReconnectAttempts
                          THEN "Unable to establish WebSocket connection after multiple attempts"
                          ELSE err
            /\ UNCHANGED <<timers, scheduled>>
    /\ UNCHANGED <<mounted, reconnectAttempts, leaderboard, received, outbox,
                   closeCalls, attached>>

\* the mount effect has run: mountedRef.current = true; connect()
WInit ==
    /\ mounted = TRUE
    /\ ws = "connecting"
    /\ timers = {}
    /\ reconnectAttempts = 0
    /\ isConnected = FALSE
    /\ wsError = NULL
    /\ leaderboard = << >>
    /\ scheduled = << >>
    /\ received = NoFrame
    /\ outbox = << >>
    /\ closeCalls = {}
    /\ attached = 1
    /\ lastClose = 0

\* the connection is established: onopen
WsOpen ==
    /\ mounted
    /\ ws = "connecting"
    /\ ws' = "open"
    /\ isConnected' = TRUE
    /\ wsError' = NULL
    /\ reconnectAttempts' = 0
    /\ scheduled' = << >>
    /\ UNCHANGED <<mounted, timers, leaderboard, received, outbox, closeCalls,
                   attached,
                   lastClose>>
    /\ UNCHANGED <<pvars, tvars, lvars, cvars, avars, mvars>>

\* a frame arrives: onmessage.  The handler sends nothing.
WsMessage ==
    /\ mounted
    /\ ws = "open"
    /\ \E m \in Frames :
          /\ received' = m
          /\ leaderboard' = IF IsSnapshot(m)
                            THEN transformLeaderboardData(m.board)
                            ELSE leaderboard
    /\ UNCHANGED <<mounted, ws, timers, reconnectAttempts, isConnected,
                   wsError, scheduled, outbox, closeCalls, attached, lastClose>>
    /\ UNCHANGED <<pvars, tvars, lvars, cvars, avars, mvars>>

\* the server starts the closing handshake: readyState is CLOSING until the
\* close event
WsClosing ==
    /\ ws = "open"
    /\ ws' = "closing"
    /\ UNCHANGED <<mounted, timers, reconnectAttempts, isConnected, wsError,
                   leaderboard, scheduled, received, outbox, closeCalls, attached,
                   lastClose>>
    /\ UNCHANGED <<pvars, tvars, lvars, cvars, avars, mvars>>

\* the connection is closed without having failed: onclose
WsClose ==
    /\ mounted
    /\ ws \in {"open", "closing"}
    /\ \E code \in CloseCodes : onclose(code, wsError)
    /\ UNCHANGED <<pvars, tvars, lvars, cvars, avars, mvars>>

\* the connection fails, while being established or later: the error
\* event and the close event (code 1006) are dispatched one after the other
WsFail ==
    /\ mounted
    /\ ws \in {"connecting", "open"}
    /\ onclose(1006, "WebSocket connection error")
    /\ UNCHANGED <<pvars, tvars, lvars, cvars, avars, mvars>>

\* a reconnect timer fires
TimerFires ==
    /\ \E t \in timers :
          IF mounted
          THEN /\ reconnectAttempts' = reconnectAttempts + 1
               /\ connect(timers \ {t})
          ELSE /\ timers' = timers \ {t}
               /\ UNCHANGED <<reconnectAttempts, ws, closeCalls, attached>>
    /\ UNCHANGED <<mounted, isConnected, wsError, leaderboard, scheduled,
                   received, outbox, lastClose>>
    /\ UNCHANGED <<pvars, tvars, lvars, cvars, avars, mvars>>

\* reconnect(), the function the hook returns
reconnect ==
    /\ reconnectAttempts' = 0
    /\ scheduled' = << >>
    /\ wsError' = IF mounted THEN NULL ELSE wsError
    /\ connect(timers)
    /\ UNCHANGED <<mounted, isConnected, leaderboard, received, outbox,
                   lastClose>>

\* reconnect() is called
Reconnect ==
    /\ reconnect
    /\ UNCHANGED <<pvars, tvars, lvars, cvars, avars, mvars>>

\* the effect's cleanup on unmount: mountedRef.current = false; cleanup()
Unmount ==
    /\ mounted
    /\ mounted' = FALSE
    /\ timers' = cleanup(ws, timers).timers
    /\ ws' = cleanup(ws, timers).ws
    /\ closeCalls' = CloseCalled(cleanup(ws, timers))
    /\ attached' = attached - cleanup(ws, timers).detached
    /\ UNCHANGED <<reconnectAttempts, isConnected, wsError, leaderboard,
                   scheduled, received, outbox, lastClose>>
    /\ UNCHANGED <<pvars, tvars, lvars, cvars, avars, mvars>>

WNext ==
    \/ WsOpen \/ WsMessage \/ WsClosing \/ WsClose \/ WsFail
    \/ TimerFires \/ Reconnect \/ Unmount

(***************************************************************************)
(* LeaderboardPage: the page that shows the streamed leaderboard of        *)
(* useLeaderboardWebSocket or the one refreshLeaderboard of the app        *)
(* context pulls over REST.  Its two effects run after a render in which   *)
(* one of their dependencies changed.                                      *)
(***************************************************************************)
\* refreshLeaderboard requests that may await their answer at a time.
MaxRestPending == 1

\* the values the effects depend on, as of the current state
Deps == [wsError |-> wsError, useWebSocket |-> useWebSocket,
         isConnected |-> isConnected]

\* useWebSocket && isConnected ? wsLeaderboard : restLeaderboard
displayLeaderboard ==
    IF useWebSocket /\ isConnected
    THEN [source |-> "ws", board |-> leaderboard]
    ELSE [source |-> "rest", board |-> restLeaderboard]

showLoading ==
    IF useWebSocket THEN ~isConnected /\ wsError = NULL ELSE restLoading

\* refreshLeaderboard(), up to its request
refreshLeaderboard ==
    /\ restPending < MaxRestPending
    /\ restPending' = restPending + 1
    /\ restLoading' = TRUE
    /\ UNCHANGED restLeaderboard

\* the page is mounted: its second effect has called refreshLeaderboard
LInit ==
    /\ useWebSocket = TRUE
    /\ restLeaderboard = << >>
    /\ restLoading = TRUE
    /\ restPending = 1
    /\ rendered = [wsError |-> NULL, useWebSocket |-> TRUE,
                   isConnected |-> FALSE]

\* the first effect acts: wsError && useWebSocket, in a render that changed
\* wsError or useWebSocket
FallsBack ==
    /\ rendered.wsError # wsError \/ rendered.useWebSocket # useWebSocket
    /\ wsError # NULL
    /\ useWebSocket

\* the second effect acts: !useWebSocket || (!isConnected && !wsError)
Loads == ~useWebSocket \/ (~isConnected /\ wsError = NULL)

\* the effects of a render that changed a dependency
PageEffects ==
    /\ mounted
    /\ rendered # Deps
    /\ rendered' = Deps
    /\ useWebSocket' = IF FallsBack THEN FALSE ELSE useWebSocket
    /\ IF FallsBack \/ Loads
       THEN refreshLeaderboard
       ELSE UNCHANGED <<restLeaderboard, restLoading, restPending>>
    /\ UNCHANGED <<pvars, tvars, wvars, cvars, avars, mvars>>

\* the button of the page: onClick = useWebSocket ? reconnect :
\* refreshLeaderboard, disabled while showLoading
ClickButton ==
    /\ mounted
    /\ ~showLoading
    /\ IF useWebSocket
       THEN reconnect /\ UNCHANGED lvars
       ELSE refreshLeaderboard /\ UNCHANGED <<useWebSocket, rendered, wvars>>
    /\ UNCHANGED <<pvars, tvars, cvars, avars, mvars>>

\* a refreshLeaderboard request is answered: the leaderboard received, or
\* the empty one when the request failed
RestAnswered ==
    /\ restPending > 0
    /\ restPending' = restPending - 1
    /\ restLoading' = FALSE
    /\ \E b \in Boards \cup {<< >>} : restLeaderboard' = RestLeaderboard(b)
    /\ UNCHANGED <<useWebSocket, rendered>>
    /\ UNCHANGED <<pvars, tvars, wvars, cvars, avars, mvars>>

LNext ==
    \/ WsOpen \/ WsMessage \/ WsClosing \/ WsClose \/ WsFail
    \/ TimerFires \/ Unmount
    \/ PageEffects \/ ClickButton \/ RestAnswered

(***************************************************************************)
(* StockChart: the sampling of the fetched chart data by selected range.   *)
(* Timestamps are counted in half hours; a point is its position in the    *)
(* fetched data (id) and its timestamp.                                    *)
(***************************************************************************)
\* Most points of a fetched chart.
MaxPoints == 8
\* half hours of a calendar day
DayLen == 48

\* the timestamps points are drawn from: two of one day, one of the next
Times == {0, 1, DayLen}
Ranges == {"1D", "1W", "1M"}
Charts == UNION {[1..n -> Times] : n \in 0..MaxPoints}
\* the chart data of the timestamps ts
Points(ts) == [i \in 1..Len(ts) |-> [id |-> i, timestamp |-> ts[i]]]

\* the dayKey of a timestamp: its calendar day
DayKey(timestamp) == timestamp \div DayLen

\* the points of data on the day dayKey, in the order of data
DayData(d, dayKey) == SelectSeq(d, LAMBDA p : DayKey(p.timestamp) = dayKey)

\* the days of data, each once, in the order they first appear in
RECURSIVE DayKeys(_)
DayKeys(d) ==
    IF d = << >> THEN << >>
    ELSE LET rest == DayKeys(SubSeq(d, 1, Len(d) - 1))
             k    == DayKey(d[Len(d)].timestamp)
         IN  IF \E i \in 1..Len(rest) : rest[i] = k THEN rest
             ELSE Append(rest, k)

SampleStepUp(n, pointsPerDay) == (n + pointsPerDay - 1) \div pointsPerDay
\* Math.floor(dayData.length / pointsPerDay)
SampleStep(n, pointsPerDay) == n \div pointsPerDay

\* the points taken from one day
SampleDay(dayData, pointsPerDay) ==
    IF Len(dayData) <= pointsPerDay THEN dayData
    ELSE [i \in 1..pointsPerDay |->
             dayData[Min((i - 1) * SampleStep(Len(dayData), pointsPerDay),
                         Len(dayData) - 1) + 1]]

\* the points taken from the days keys, one day after the other
RECURSIVE SampleDays(_, _, _)
SampleDays(d, keys, pointsPerDay) ==
    IF keys = << >> THEN << >>
    ELSE SampleDay(DayData(d, Head(keys)), pointsPerDay)
             \o SampleDays(d, Tail(keys), pointsPerDay)

\* s, sorted, with the point p put after the points that are not later
RECURSIVE Inserted(_, _)
Inserted(s, p) ==
    IF s = << >> THEN <<p>>
    ELSE IF s[Len(s)].timestamp <= p.timestamp THEN Append(s, p)
    ELSE Append(Inserted(SubSeq(s, 1, Len(s) - 1), p), s[Len(s)])

\* sort((a, b) => a.timestamp - b.timestamp): ascending and stable
RECURSIVE SortByTimestamp(_)
SortByTimestamp(s) ==
    IF s = << >> THEN << >>
    ELSE Inserted(SortByTimestamp(SubSeq(s, 1, Len(s) - 1)), s[Len(s)])

sampleDataPerDay(d, pointsPerDay) ==
    IF d = << >> THEN d
    ELSE SortByTimestamp(SampleDays(d, DayKeys(d), pointsPerDay))

\* the points kept after the first n of data, last the timestamp kept last
RECURSIVE SampledByInterval(_, _, _)
SampledByInterval(d, n, intervalMs) ==
    IF n = 0 THEN [kept |-> << >>, last |-> 0]
    ELSE LET before == SampledByInterval(d, n - 1, intervalMs)
         IN  IF before.kept = << >>
                  \/ d[n].timestamp - before.last >= intervalMs
             THEN [kept |-> Append(before.kept, d[n]),
                   last |-> d[n].timestamp]
             ELSE before

sampleDataByInterval(d, intervalMs) ==
    SampledByInterval(d, Len(d), intervalMs).kept

\* the data shown for a range: half-hour intervals for 1D, 4 points per
\* day for 1W, everything otherwise
Processed(d, range) ==
    CASE range = "1D" -> sampleDataByInterval(d, 1)
      [] range = "1W" -> sampleDataPerDay(d, 4)
      [] OTHER -> d

NoChart == [range |-> "none", points |-> << >>]

\* no data fetched yet
CInit ==
    /\ data = << >>
    /\ sampled = NoChart

\* the chart data of the selected range arrives for the first time and is
\* processed
ChartLoaded ==
    /\ sampled = NoChart
    /\ \E ts \in Charts, range \in Ranges :
          /\ data' = Points(ts)
          /\ sampled' = [range |-> range, points |-> Processed(Points(ts), range)]
    /\ UNCHANGED <<pvars, tvars, wvars, lvars, avars, mvars>>

CNext == ChartLoaded

(***************************************************************************)
(* AppProvider: the app context.  It holds the user, the stocks, the       *)
(* portfolio and the transactions, refreshes them from the backend under a *)
(* rate limit, and passes orders to the backend.  The provider wraps the   *)
(* application and stays mounted.  Times are in milliseconds; the          *)
(* portfolio and the transactions are known by the number of trades the    *)
(* backend had executed when it answered.  A function of the context sees  *)
(* the user of the render that made it: a call carries the user it saw.    *)
(***************************************************************************)
\* Steps of the clock.
MaxTicks == 6
\* Calls of the context that may await a response at a time.
MaxAppCalls == 1
\* Trades the backend executes.
MaxTrades == 1
\* the step of the clock
TickMs == 5000
\* Date.now() when the provider is mounted
Epoch == 30000

\* the minInterval refreshStocks, refreshPortfolio and refreshTransactions
\* pass to canRefresh
minInterval == [stocks |-> 30000, portfolio |-> 15000, transactions |-> 20000]

NullPortfolio == [loaded |-> FALSE, trades |-> 0]
\* apiPortfolioToPortfolio(apiPortfolio), of a backend that executed n trades
ApiPortfolio(n) == [loaded |-> TRUE, trades |-> n]

initialState ==
    [stocks |-> "none", portfolio |-> NullPortfolio, transactions |-> 0,
     isLoading |-> [stocks |-> FALSE, portfolio |-> FALSE,
                    transactions |-> FALSE],
     error |-> [stocks |-> NULL, portfolio |-> NULL, transactions |-> NULL]]

Trades == {"buyStock", "sellStock"}
NoSettled == [op |-> "none", outcome |-> "none", traded |-> 0]
Resolved(c) == [op |-> c.op, outcome |-> "resolved", traded |-> c.traded]
Rejected(c) == [op |-> c.op, outcome |-> "rejected", traded |-> 0]

\* a call of the context's function op, made in a render whose user is u
AppCall(op, u) ==
    [op |-> op, pc |-> "none", user |-> u, auth |-> FALSE, traded |-> 0]

\* what a handler of the context works on: the state, lastRefreshTime, the
\* calls awaiting a response, the canRefresh calls it has made and whether
\* a token is stored
Ctx(tok) ==
    [state |-> state, last |-> lastRefreshTime, calls |-> calls,
     limited |-> {}, token |-> tok]

Dropped(s, i) == SubSeq(s, 1, i - 1) \o SubSeq(s, i + 1, Len(s))

\* now - lastTime >= minInterval
canRefreshNow(lastTime, interval) == now - lastTime >= interval

canRefreshMoving(x, key, interval) ==
    LET granted == canRefreshNow(x.last[key], interval)
    IN  [granted |-> granted,
         x |-> [x EXCEPT !.last[key] = now,
                         !.limited = @ \cup {[key |-> key,
                                              lastTime |-> x.last[key],
                                              granted |-> granted]}]]

\* canRefresh(key, minInterval): whether the refresh is granted, and x with
\* lastRefreshTime moved when it is
canRefresh(x, key, interval) ==
    LET granted == canRefreshNow(x.last[key], interval)
    IN  [granted |-> granted,
         x |-> [x EXCEPT !.last[key] = IF granted THEN now ELSE @,
                         !.limited = @ \cup {[key |-> key,
                                              lastTime |-> x.last[key],
                                              granted |-> granted]}]]

\* the head of a refresh's try block: the loading flag, and the request,
\* which carries the token stored now
Requested(x, c, key) ==
    [x EXCEPT !.state.isLoading[key] = TRUE,
              !.state.error[key] = NULL,
              !.calls = Append(@, [c EXCEPT !.pc = key, !.auth = x.token])]

\* refreshStocks(), up to its first await
refreshStocks(x, c) ==
    LET r == canRefresh(x, "stocks", minInterval.stocks)
    IN  IF r.granted THEN Requested(r.x, c, "stocks") ELSE r.x

\* refreshPortfolio(), up to its await
refreshPortfolio(x, c) ==
    IF c.user = NULL THEN x
    ELSE LET r == canRefresh(x, "portfolio", minInterval.portfolio)
         IN  IF r.granted THEN Requested(r.x, c, "portfolio") ELSE r.x

\* refreshTransactions(), up to its await
refreshTransactions(x, c) ==
    IF c.user = NULL THEN x
    ELSE LET r == canRefresh(x, "transactions", minInterval.transactions)
         IN  IF r.granted THEN Requested(r.x, c, "transactions") ELSE r.x

Commit(x) ==
    /\ state' = x.state
    /\ lastRefreshTime' = x.last
    /\ calls' = x.calls
    /\ limited' = x.limited

\* the fields of the order form
tform == <<quantity, selectedStock, orderType, inFlight, submitted>>

\* the provider is mounted and nobody is logged in: checkAuth has called
\* refreshStocks() (and refreshLeaderboard(), see LInit)
AInit ==
    /\ now = Epoch
    /\ state = [initialState EXCEPT !.isLoading.stocks = TRUE]
    /\ lastRefreshTime = [stocks |-> Epoch, portfolio |-> 0, transactions |-> 0]
    /\ calls = <<[AppCall("refreshStocks", NULL) EXCEPT !.pc = "stocks"]>>
    /\ backend = 0
    /\ settled = NoSettled
    /\ limited = {}

\* time passes
Tick ==
    /\ now < Epoch + MaxTicks * TickMs
    /\ now' = now + TickMs
    /\ settled' = NoSettled
    /\ limited' = {}
    /\ UNCHANGED <<state, lastRefreshTime, calls, backend>>
    /\ UNCHANGED <<pvars, tvars, wvars, lvars, cvars, mvars>>

\* a page calls refreshStocks()
RefreshStocks ==
    /\ Len(calls) < MaxAppCalls
    /\ Commit(refreshStocks(Ctx(token), AppCall("refreshStocks", user)))
    /\ settled' = NoSettled
    /\ UNCHANGED <<now, backend>>
    /\ UNCHANGED <<pvars, tvars, wvars, lvars, cvars, mvars>>

\* a page calls refreshPortfolio()
RefreshPortfolio ==
    /\ Len(calls) < MaxAppCalls
    /\ Commit(refreshPortfolio(Ctx(token), AppCall("refreshPortfolio", user)))
    /\ settled' = NoSettled
    /\ UNCHANGED <<now, backend>>
    /\ UNCHANGED <<pvars, tvars, wvars, lvars, cvars, mvars>>

\* a page calls refreshTransactions()
RefreshTransactions ==
    /\ Len(calls) < MaxAppCalls
    /\ Commit(refreshTransactions(Ctx(token),
                                  AppCall("refreshTransactions", user)))
    /\ settled' = NoSettled
    /\ UNCHANGED <<now, backend>>
    /\ UNCHANGED <<pvars, tvars, wvars, lvars, cvars, mvars>>

\* handleTrade, which has checked the user, calls buyStock(stockId, shares)
\* or sellStock(stockId, shares): up to the await of transactionAPI, which
\* sends the order when a token is stored
TradeCalled ==
    /\ Len(calls) < MaxAppCalls
    /\ user # NULL
    /\ \E op \in Trades :
          calls' = Append(calls, [AppCall(op, user) EXCEPT !.pc = "trade",
                                                           !.auth = token])
    /\ state' = [state EXCEPT !.isLoading.portfolio = TRUE,
                              !.error.portfolio = NULL]
    /\ settled' = NoSettled
    /\ limited' = {}
    /\ UNCHANGED <<now, backend, lastRefreshTime>>
    /\ UNCHANGED <<pvars, tvars, wvars, lvars, cvars, mvars>>

\* await refreshTransactions(), the last statement of buyStock and sellStock
ThenTransactions(x, c) ==
    LET x2 == refreshTransactions(x, c)
    IN  /\ Commit(x2)
        /\ settled' = IF Len(x2.calls) > Len(x.calls)
                      THEN NoSettled ELSE Resolved(c)

\* await refreshPortfolio(); await refreshTransactions()
ThenPortfolio(x, c) ==
    LET x1 == refreshPortfolio(x, c)
    IN  IF Len(x1.calls) > Len(x.calls)
        THEN Commit(x1) /\ settled' = NoSettled
        ELSE ThenTransactions(x1, c)

\* transactionAPI.buyStock or sellStock settles: the backend executed the
\* order and buyStock goes on to its refreshes, or the order was refused or
\* never sent and buyStock's catch block runs
TradeSettles ==
    \E i \in 1..Len(calls) :
        LET c == calls[i]
            x == [Ctx(token) EXCEPT !.calls = Dropped(calls, i)]
        IN  /\ c.pc = "trade"
            /\ \/ /\ c.auth
                  /\ backend < MaxTrades
                  /\ backend' = backend + 1
                  /\ ThenPortfolio(x, [c EXCEPT !.traded = backend + 1])
               \/ /\ UNCHANGED backend
                  /\ Commit([x EXCEPT
                                !.state.isLoading.portfolio = FALSE,
                                !.state.error.portfolio = "Failed to trade"])
                  /\ settled' = Rejected(c)
            /\ UNCHANGED now
            /\ UNCHANGED <<pvars, tvars, wvars, lvars, cvars, mvars>>

\* what follows refreshPortfolio() in the function that called it
AfterPortfolio(x, c) ==
    IF c.op \in Trades
    THEN ThenTransactions(x, c)
    ELSE Commit(x) /\ settled' = NoSettled

\* portfolioAPI.getPortfolio() settles inside refreshPortfolio: the
\* portfolio is kept and the user the call saw gets its balance, or the
\* catch block keeps the error; refreshPortfolio returns either way
PortfolioAnswered ==
    \E i \in 1..Len(calls) :
        LET c == calls[i]
            x == [Ctx(token) EXCEPT !.calls = Dropped(calls, i),
                                    !.state.isLoading.portfolio = FALSE]
        IN  /\ c.pc = "portfolio"
            /\ \/ /\ c.auth
                  /\ user' = c.user
                  /\ AfterPortfolio([x EXCEPT !.state.portfolio =
                                                  ApiPortfolio(backend)], c)
               \/ /\ UNCHANGED user
                  /\ AfterPortfolio([x EXCEPT !.state.error.portfolio =
                                                  "Failed to load portfolio"],
                                    c)
            /\ UNCHANGED <<now, backend, token, cookie, lastTokenOp, tform>>
            /\ UNCHANGED <<pvars, wvars, lvars, cvars, mvars>>

\* transactionAPI.getTransactionHistory() settles inside
\* refreshTransactions, which returns either way
TransactionsAnswered ==
    \E i \in 1..Len(calls) :
        LET c == calls[i]
            x == [Ctx(token) EXCEPT !.calls = Dropped(calls, i),
                                    !.state.isLoading.transactions = FALSE]
        IN  /\ c.pc = "transactions"
            /\ \/ /\ c.auth
                  /\ Commit([x EXCEPT !.state.transactions = backend])
               \/ Commit([x EXCEPT !.state.error.transactions =
                                       "Failed to load transactions"])
            /\ settled' = IF c.op \in Trades THEN Resolved(c) ELSE NoSettled
            /\ UNCHANGED <<now, backend>>
            /\ UNCHANGED <<pvars, tvars, wvars, lvars, cvars, mvars>>

\* stockAPI.getStocks() settles inside refreshStocks (after the price update
\* and its two seconds): the stocks of the backend, or on failure the mock
\* stocks and an error
StocksAnswered ==
    \E i \in 1..Len(calls) :
        LET x == [Ctx(token) EXCEPT !.calls = Dropped(calls, i),
                                    !.state.isLoading.stocks = FALSE]
        IN  /\ calls[i].pc = "stocks"
            /\ \/ Commit([x EXCEPT !.state.stocks = "api"])
               \/ Commit([x EXCEPT !.state.stocks = "mock",
                                   !.state.error.stocks = "API Error"])
            /\ settled' = NoSettled
            /\ UNCHANGED <<now, backend>>
            /\ UNCHANGED <<pvars, tvars, wvars, lvars, cvars, mvars>>

\* the refreshes login starts once it has the user; they are the functions
\* of the render login was called in, which see the user of that render
LoggedIn(x, u) ==
    refreshTransactions(
        refreshPortfolio(
            refreshStocks(x, AppCall("refreshStocks", u)),
            AppCall("refreshPortfolio", u)),
        AppCall("refreshTransactions", u))

\* login(email, password) when authAPI.login succeeds and stores the token:
\* userAPI.getCurrentUser succeeds too (the user is kept and the data
\* loaded) or fails.  The flags login keeps about itself (isLoading.user,
\* error.user) are no part of AppState and are left out, as is the
\* leaderboard, which refreshLeaderboard() alone reads and writes.
login ==
    /\ setToken
    /\ \/ /\ user' = "user"
          /\ Len(LoggedIn(Ctx(TRUE), user).calls) <= MaxAppCalls
          /\ Commit(LoggedIn(Ctx(TRUE), user))
       \/ /\ UNCHANGED <<user, state, lastRefreshTime, calls>>
          /\ limited' = {}
    /\ settled' = NoSettled
    /\ UNCHANGED <<now, backend, tform>>
    /\ UNCHANGED <<pvars, wvars, lvars, cvars, mvars>>

\* logout(): authAPI.logout() removes the token, setState(initialState)
logout ==
    /\ removeToken
    /\ user' = NULL
    /\ state' = initialState
    /\ settled' = NoSettled
    /\ limited' = {}
    /\ UNCHANGED <<now, backend, lastRefreshTime, calls, tform>>
    /\ UNCHANGED <<pvars, wvars, lvars, cvars, mvars>>

\* the refreshes of the context, called by the pages and by login
RNext ==
    \/ Tick
    \/ RefreshStocks \/ RefreshPortfolio \/ RefreshTransactions
    \/ PortfolioAnswered \/ TransactionsAnswered \/ StocksAnswered
    \/ login \/ logout

\* the context with its orders
ANext == RNext \/ TradeCalled \/ TradeSettles

(***************************************************************************)
(* middleware: the routing of page requests by the alphalearn_token        *)
(* cookie.  The browser sends the cookie until it expires.  Time is in     *)
(* days.                                                                   *)
(***************************************************************************)
\* Days the clock runs.
MaxDays == 8

\* config.matcher: the paths the middleware runs on
Paths == {"/portfolio", "/trade", "/settings", "/login", "/register"}
isAuthPage(pathname) == pathname \in {"/login", "/register"}
isProtectedPage(pathname) == pathname \in {"/portfolio", "/trade", "/settings"}

\* request.cookies.get("alphalearn_token")?.value, made a boolean
isAuthenticated == cookie.set /\ day < cookie.expires

Redirect(pathname, to, redirect) ==
    [path |-> pathname, kind |-> "redirect", to |-> to, redirect |-> redirect]
NoResponse == [path |-> NULL, kind |-> "none", to |-> NULL, redirect |-> NULL]

middleware(pathname, authenticated) ==
    IF isAuthPage(pathname) /\ authenticated
    THEN Redirect(pathname, "/", NULL)
    ELSE IF isProtectedPage(pathname) /\ ~authenticated
    THEN Redirect(pathname, "/login", pathname)
    ELSE [path |-> pathname, kind |-> "next", to |-> NULL, redirect |-> NULL]

MInit ==
    /\ day = 0
    /\ response = NoResponse

\* a day passes
DayPasses ==
    /\ day < MaxDays
    /\ day' = day + 1
    /\ UNCHANGED response
    /\ UNCHANGED <<pvars, tvars, wvars, lvars, cvars, avars>>

\* the browser requests a page the middleware runs on
PageRequest ==
    /\ \E pathname \in Paths : response' = middleware(pathname, isAuthenticated)
    /\ UNCHANGED day
    /\ UNCHANGED <<pvars, tvars, wvars, lvars, cvars, avars>>

MNext == Login \/ Logout \/ DayPasses \/ PageRequest

(***************************************************************************)
(* Specifications: the parts of the front end run from the same initial    *)
(* state, each under its own next-state relation.                          *)
(***************************************************************************)
Init == PInit /\ TInit /\ WInit /\ LInit /\ CInit /\ AInit /\ MInit

Spec == Init /\ [][PNext]_vars

TradeSpec == Init /\ [][TNext]_vars

WsSpec == Init /\ [][WNext]_vars

PageSpec == Init /\ [][LNext]_vars

\* the effects of a render run before the next render (so they are not
\* starved by the renders that follow), requests are answered, timers fire,
\* a connection being established opens or fails, and a closing handshake
\* ends
FairPageSpec ==
    /\ PageSpec
    /\ SF_vars(PageEffects)
    /\ WF_vars(RestAnswered)
    /\ WF_vars(TimerFires)
    /\ WF_vars(ws = "connecting" /\ (WsOpen \/ WsFail))
    /\ WF_vars(ws = "closing" /\ WsClose)

ChartSpec == Init /\ [][CNext]_vars

RefreshSpec == Init /\ [][RNext]_vars

AppSpec == Init /\ [][ANext]_vars

AuthSpec == Init /\ [][MNext]_vars


(***************************************************************************)
(* Properties of usePortfolio.                                             *)
(***************************************************************************)
Loaded(pf) == pf # NoPortfolio
IsOrder(c) == c.op \in {"buy", "sell"}
Succeeded(c) == IsOrder(c) /\ c.value = "true"
Failed(c) == IsOrder(c) /\ Loaded(c.seen) /\ c.value = "false"

\* the order c executed on portfolio pf: the message it fails with, its result
ErrorOf(c, pf) ==
    IF c.op = "buy" THEN BuyError(pf, c.symbol, c.shares, c.price)
                    ELSE SellError(pf, c.symbol, c.shares, c.price)
Apply(c, pf) ==
    IF c.op = "buy" THEN BuyPortfolio(pf, c.symbol, c.shares, c.price)
                    ELSE SellPortfolio(pf, c.symbol, c.shares, c.price)

\* the shares held and the average cost of a symbol (0 when not held)
Held(pf, symbol) ==
    IF Find(pf.positions, symbol) = 0 THEN 0
    ELSE pf.positions[Find(pf.positions, symbol)].shares
AvgCost(pf, symbol) ==
    IF Find(pf.positions, symbol) = 0 THEN 0
    ELSE pf.positions[Find(pf.positions, symbol)].averageCost

\* cash + the sum of shares x averageCost, in exact arithmetic (units of 2^-FracBits)
RECURSIVE ExactCost(_)
ExactCost(positions) ==
    IF positions = << >> THEN 0
    ELSE Head(positions).shares * Head(positions).averageCost + ExactCost(Tail(positions))
BookValue(pf) == pf.cash + ExactCost(pf.positions)

\* a call of the hook settles in this step
Settles == pending # << >> /\ pending' = Tail(pending)

\* C1: two overlapping orders that both report success leave the portfolio
\* that executing them one after the other, in one order or the other, leaves.
\* ret is the order that settled last and ret' the one settling now; they
\* overlap when both worked on the same portfolio.
C1_Serializable ==
    [][(Settles /\ Succeeded(ret) /\ Succeeded(ret') /\ ret'.seen = ret.seen)
        => \/ /\ ErrorOf(ret', portfolio) = NULL
              /\ portfolio' = Apply(ret', portfolio)
           \/ /\ ErrorOf(ret, Apply(ret', ret.seen)) = NULL
              /\ portfolio' = Apply(ret, Apply(ret', ret.seen))]_pvars

\* C2: a successful BUY leaves cash + sum(shares x averageCost) as it was and
\* a successful SELL changes it by exactly (price - averageCost) x shares sold.
C2_Conservation ==
    /\ (Succeeded(ret) /\ ret.op = "buy")
          => BookValue(portfolio) = BookValue(ret.seen)
    /\ (Succeeded(ret) /\ ret.op = "sell")
          => BookValue(portfolio) - BookValue(ret.seen)
                = (ret.price - AvgCost(ret.seen, ret.symbol)) * ret.shares

\* C3: a BUY costing more than the cash is rejected with "Insufficient funds",
\* returns false and leaves the portfolio as it was; a BUY costing no more
\* than the cash succeeds; the cash is never negative.
C3_NoNegativeCash ==
    /\ Loaded(portfolio) => portfolio.cash >= 0
    /\ (ret.op = "buy" /\ Loaded(ret.seen)) =>
          IF ret.seen.cash < Mul(ret.shares, ret.price)
          THEN /\ ret.value = "false"
               /\ portfolio = ret.prev
               /\ ~isLoading => error = "Insufficient funds"
          ELSE /\ ret.value = "true"
               /\ portfolio.cash = Sub(ret.seen.cash, Mul(ret.shares, ret.price))
C3_Witness ==
    /\ Failed(ret) /\ ret.op = "buy"
    /\ error = "Insufficient funds"
    /\ portfolio = ret.prev
    /\ portfolio.cash < Mul(ret.shares, ret.price)

\* the share count and average cost a symbol has after the lots l1 and then
\* l2 (each <<shares, price>>) are bought on top of positions
AfterLots(positions, symbol, l1, l2) ==
    LET ps == BuyPositions(BuyPositions(positions, symbol, l1[1], l1[2]),
                           symbol, l2[1], l2[2])
    IN  <<ps[Find(ps, symbol)].shares, ps[Find(ps, symbol)].averageCost>>
Affordable(cash, l1, l2) ==
    /\ ~InsufficientFunds(cash, OrderCost(l1[1], l1[2]))
    /\ ~InsufficientFunds(BuyCash(cash, OrderCost(l1[1], l1[2])), OrderCost(l2[1], l2[2]))

\* C4: a successful BUY of a symbol not held creates a position of the shares
\* bought at the price paid; on a symbol held it adds the shares and makes the
\* average cost (oldShares x oldAvg + n x p) / (oldShares + n), 10 at 100 then
\* 10 at 200 giving 150; the position reached does not depend on the order in
\* which the lots were bought.
C4_AverageCost ==
    /\ (Succeeded(ret) /\ ret.op = "buy" /\ Held(ret.seen, ret.symbol) = 0)
          => /\ Held(portfolio, ret.symbol) = ret.shares
             /\ AvgCost(portfolio, ret.symbol) = ret.price
    /\ (Succeeded(ret) /\ ret.op = "buy" /\ Held(ret.seen, ret.symbol) > 0)
          => /\ Held(portfolio, ret.symbol) = Held(ret.seen, ret.symbol) + ret.shares
             /\ AvgCost(portfolio, ret.symbol) =
                   Div(Add(Mul(Held(ret.seen, ret.symbol), AvgCost(ret.seen, ret.symbol)),
                           Mul(ret.shares, ret.price)),
                       Whole(Held(ret.seen, ret.symbol) + ret.shares))
    /\ Div(Add(Mul(10, Whole(100)), Mul(10, Whole(200))), Whole(20)) = Whole(150)
    /\ Loaded(portfolio) =>
          \A symbol \in Symbols, l1, l2 \in ShareLots \X Prices :
              (Affordable(portfolio.cash, l1, l2) /\ Affordable(portfolio.cash, l2, l1))
                 => AfterLots(portfolio.positions, symbol, l1, l2)
                       = AfterLots(portfolio.positions, symbol, l2, l1)


\* the positions of pf other than the one in symbol
Others(pf, symbol) == Without(pf.positions, symbol)

C6_SellErrors ==
    (ret.op = "sell" /\ Loaded(ret.seen)) =>
        IF Find(ret.seen.positions, ret.symbol) = 0
        THEN /\ ret.value = "false"
             /\ portfolio = ret.prev
             /\ ~isLoading => error = "Position not found"
        ELSE IF Held(ret.seen, ret.symbol) < ret.shares
        THEN /\ ret.value = "false"
             /\ portfolio = ret.prev
             /\ ~isLoading => error = "Not enough shares"
        ELSE ret.value = "true"
C6_Witness ==
    /\ Failed(ret) /\ ret.op = "sell"
    /\ 0 < Held(ret.seen, ret.symbol) /\ Held(ret.seen, ret.symbol) < ret.shares
    /\ error = "Not enough shares"
    /\ portfolio = ret.prev

\* C7: once the portfolio exists, it changes only as the effect of a
\* successful buyStock or sellStock.
C7_OnlyOrdersMutate ==
    [][(Loaded(portfolio) /\ portfolio' # portfolio)
        => (Settles /\ Succeeded(ret'))]_pvars

\* C8: every position holds at least one share and no two positions are in
\* the same symbol; a SELL of the whole holding removes the position.
C8_PositionsWellFormed ==
    /\ Loaded(portfolio) =>
          /\ \A i \in 1..Len(portfolio.positions) : portfolio.positions[i].shares >= 1
          /\ \A i, j \in 1..Len(portfolio.positions) :
                portfolio.positions[i].symbol = portfolio.positions[j].symbol => i = j
    /\ (Succeeded(ret) /\ ret.op = "sell" /\ ret.shares = Held(ret.seen, ret.symbol))
          => Find(portfolio.positions, ret.symbol) = 0
C8_Witness ==
    /\ Succeeded(ret) /\ ret.op = "sell"
    /\ ret.shares = Held(ret.seen, ret.symbol)
    /\ Find(portfolio.positions, ret.symbol) = 0
    /\ Len(portfolio.positions) = Len(ret.seen.positions) - 1

(***************************************************************************)
(* Properties of the order form.                                           *)
(***************************************************************************)
\* C9: every order the trade form passes to buyStock or sellStock, and on to
\* the server, has a whole number of shares that is at least 1; an order
\* with zero, negative or non-numeric shares is never submitted.
C9_SharesAtLeastOne ==
    submitted.op # "none" =>
        (~submitted.shares.nan /\ submitted.shares.val >= 1)

(***************************************************************************)
(* Properties of useLeaderboardWebSocket.                                  *)
(***************************************************************************)
\* C10: the delay scheduled before the n-th consecutive automatic reconnect
\* attempt is min(1000 * 2^(n-1), 30000) ms, so no delay exceeds 30 s; the
\* timer pending is the one scheduled last, and it precedes attempt number
\* reconnectAttempts + 1.
C10_BackoffDelay ==
    /\ \A n \in 1..Len(scheduled) :
          /\ scheduled[n] = Min(1000 * Pow2(n - 1), 30000)
          /\ scheduled[n] <= 30000
    /\ \A t \in timers :
          /\ t.ref
          /\ t.delay = scheduled[Len(scheduled)]
          /\ Len(scheduled) = reconnectAttempts + 1
    /\ (timers = {} /\ mounted) => Len(scheduled) = reconnectAttempts

\* the fifth reconnect attempt in a row is awaited, 16 s after the close
C10_Witness ==
    /\ Len(scheduled) = 5
    /\ timers = {Timer(16000)}
    /\ ws = "closed"

\* a close event is delivered to the hook in this step
Closes == ws # "closed" /\ ws' = "closed"

Exhausted == "Unable to establish WebSocket connection after multiple attempts"

\* C11: between two resets of the attempt count (mount, reconnect(), a
\* successful open) at most 5 reconnect timers are scheduled and at most 5
\* automatic attempts made; a close that arrives with the counter at 5
\* schedules no timer and sets the error to the exhaustion message.
C11_BoundedRetries ==
    /\ [](Len(scheduled) <= 5 /\ reconnectAttempts <= 5)
    /\ [][(Closes /\ reconnectAttempts = 5) =>
             (timers' = {} /\ scheduled' = scheduled /\ wsError' = Exhausted)]_vars

\* the close after the fifth automatic attempt has been handled
C11_Witness ==
    /\ ws = "closed"
    /\ reconnectAttempts = 5
    /\ Len(scheduled) = 5
    /\ timers = {}
    /\ wsError = Exhausted

(***************************************************************************)
(* Properties of LeaderboardPage.                                          *)
(***************************************************************************)
\* C12: the page leaves streaming for the REST path (useWebSocket becomes
\* false) only once the reconnect attempts are exhausted; a failure while
\* attempts remain does not put the page in fallback mode.
C12_FallbackOnlyAfterExhaustion ==
    [][(useWebSocket /\ ~useWebSocket') =>
          (reconnectAttempts = maxReconnectAttempts /\ wsError = Exhausted)]_vars

\* C13: while the page stays mounted in fallback mode, refreshLeaderboard
\* is called again and again: at any time in fallback mode a later call
\* follows (a request awaits its answer again), unless the page is unmounted.
C13_PeriodicPolling ==
    [](( ~useWebSocket /\ mounted) => <>(~mounted \/ restPending > 0))

(***************************************************************************)
(* Properties of useLeaderboardWebSocket: frames and teardown.             *)
(***************************************************************************)
\* a frame is delivered to onmessage in this step
Receives(kind) == received' # received /\ received'.kind = kind

\* C14: when a "ping" frame arrives on the open socket, the hook answers
\* with a "pong" frame sent on that socket.
C14_PongOnPing ==
    [][Receives("ping") => outbox' = Append(outbox, "pong")]_vars

\* C15: unmounting cancels the subscription at once: the socket, when still
\* connecting or open, is closed with code 1000, the pending reconnect
\* timer is cancelled, and from then on no step creates a socket, sets a
\* timer or changes leaderboard, isConnected or error.
C15_Cancellation ==
    /\ [](~mounted => (ws = "none" /\ timers = {}))
    /\ [][(mounted /\ ~mounted' /\ ws \in {"connecting", "open"}) =>
             [state |-> ws, code |-> 1000] \in closeCalls']_vars
    /\ [][~mounted => UNCHANGED <<mounted, ws, timers, closeCalls, leaderboard,
                                  isConnected, wsError>>]_vars

\* unmounted while a reconnect attempt was connecting, and reconnect()
\* called after that
C15_Witness ==
    /\ ~mounted
    /\ closeCalls = {[state |-> "connecting", code |-> 1000]}
    /\ lastClose = 1006
    /\ wsError = "WebSocket connection error"
    /\ reconnectAttempts = 0
    /\ scheduled = << >>

\* what cleanup() leaves of the current socket and timers, and what a
\* second cleanup() right after it leaves
CleanedOnce == cleanup(ws, timers)
CleanedTwice == cleanup(CleanedOnce.ws, CleanedOnce.timers)

\* C16: cleanup() twice in a row leaves what cleanup() once leaves (the
\* second call closes nothing); in every socket state it does not throw and
\* calls close() exactly when the socket is OPEN or CONNECTING.
C16_CleanupIdempotent ==
    /\ CleanedTwice.ws = CleanedOnce.ws
    /\ CleanedTwice.timers = CleanedOnce.timers
    /\ CleanedTwice.closed = "none"
    /\ ~CleanedOnce.threw /\ ~CleanedTwice.threw
    /\ CleanedOnce.closed # "none" <=> ws \in {"connecting", "open"}
    /\ \A c \in closeCalls : c.state \in {"connecting", "open"}

\* cleanup() has run on an open socket (reconnect() never does: connect()
\* returns when the socket is open) and on a connecting one
C16_Witness ==
    /\ ~mounted
    /\ ws = "none"
    /\ closeCalls = {[state |-> "connecting", code |-> 1000],
                     [state |-> "open", code |-> 1000]}

(***************************************************************************)
(* Properties of StockChart.                                               *)
(***************************************************************************)
\* the positions of the points of s that are on the day dayKey
OnDay(s, dayKey) == {i \in 1..Len(s) : DayKey(s[i].timestamp) = dayKey}

\* C17: for the 1W range, sampleDataPerDay(data, 4) returns points of the
\* data only, no point twice, for each calendar day 4 of them when the day
\* has more than 4 points and all of them otherwise, in ascending order of
\* timestamp.
C17_SamplePerDay ==
    sampled.range = "1W" =>
        LET out == sampled.points
        IN  /\ \A i \in 1..Len(out) : \E j \in 1..Len(data) : out[i] = data[j]
            /\ \A i, j \in 1..Len(out) : i # j => out[i].id # out[j].id
            /\ \A t \in Times :
                  Cardinality(OnDay(out, DayKey(t)))
                      = Min(4, Cardinality(OnDay(data, DayKey(t))))
            /\ \A i \in 1..(Len(out) - 1) :
                  out[i].timestamp <= out[i + 1].timestamp

\* eight points, seven of one day and not in order of time, sampled: the
\* first four of that day and the point of the other day are kept
C17_Witness ==
    /\ sampled.range = "1W"
    /\ Len(data) = 8
    /\ data[1].timestamp = DayLen
    /\ data[2].timestamp = 1
    /\ \A i \in 3..8 : data[i].timestamp = 0
    /\ Len(sampled.points) = 5
    /\ sampled.points[5] = data[1]
    /\ sampled.points[4] = data[2]

(***************************************************************************)
(* Properties of useLeaderboardWebSocket: closes.                          *)
(***************************************************************************)
\* reconnect() creates a socket in this step
Reconnects ==
    /\ ws' = "connecting"
    /\ reconnectAttempts' = 0
    /\ scheduled' = << >>
    /\ wsError' = NULL

\* C18: a close with code 1000 schedules no reconnect timer, and the socket
\* it closed stays the hook's socket until reconnect() is called or the
\* hook is unmounted; a close with another code while fewer than 5 attempts
\* were made schedules exactly one timer.
C18_NormalCloseNoReconnect ==
    /\ [][(Closes /\ lastClose' = 1000) =>
             (timers' = {} /\ scheduled' = scheduled)]_vars
    /\ []((ws = "closed" /\ lastClose = 1000) => timers = {})
    /\ [][(ws = "closed" /\ lastClose = 1000 /\ ws' # "closed") =>
             (Reconnects \/ (~mounted' /\ ws' = "none"))]_vars
    /\ [][(Closes /\ lastClose' # 1000 /\ reconnectAttempts < 5) =>
             (timers = {} /\ Cardinality(timers') = 1
                 /\ Len(scheduled') = Len(scheduled) + 1)]_vars

\* the server closed the open connection normally: nothing is pending
C18_Witness ==
    /\ mounted
    /\ ws = "closed"
    /\ lastClose = 1000
    /\ timers = {}
    /\ wsError = NULL
    /\ reconnectAttempts = 0

\* the leaderboard entries of a snapshot, as the hook's state holds them:
\* every field carries the value the frame gave it
SnapshotEntry(entry) ==
    [rank |-> entry.rank,
     userId |-> JsString(NumberToString(entry.user_id.n)),
     userName |-> entry.username,
     userAvatar |-> JsString("/placeholder-user.jpg"),
     portfolioValue |-> entry.portfolio_value,
     totalReturn |-> entry.total_return,
     totalReturnPercent |-> entry.total_return_percent,
     investedValue |-> entry.invested_value,
     positionsValue |-> entry.positions_value,
     cashBalance |-> entry.cash_balance,
     activePositions |-> entry.active_positions]
Snapshot(board) == [i \in 1..Len(board) |-> SnapshotEntry(board[i])]

\* C19: the leaderboard state changes only when a frame arrives that is a
\* JSON object with a leaderboard array or a JSON array, and then it becomes
\* exactly that frame's leaderboard; "ping", "pong", a malformed frame and
\* any other JSON leave leaderboard, isConnected and error as they are and
\* the socket open.
C19_OnlySnapshotChangesLeaderboard ==
    /\ [][leaderboard' # leaderboard =>
             received'.kind \in {"wrapped", "array"}]_vars
    /\ [][(received' # received /\ received'.kind \in {"wrapped", "array"}) =>
             leaderboard' = Snapshot(received'.board)]_vars
    /\ [][(received' # received /\ received'.kind \notin {"wrapped", "array"}) =>
             (/\ UNCHANGED <<leaderboard, isConnected, wsError>>
              /\ ws' = "open")]_vars

(***************************************************************************)
(* Properties of LeaderboardPage: what is shown.                           *)
(***************************************************************************)
\* C20: the page shows the streamed leaderboard whenever the socket is
\* connected and the REST leaderboard otherwise, also once it has fallen
\* back to REST and the socket has connected again.
C20_DisplaySource ==
    mounted =>
        displayLeaderboard =
            IF isConnected THEN [source |-> "ws", board |-> leaderboard]
            ELSE [source |-> "rest", board |-> restLeaderboard]

(***************************************************************************)
(* Properties of transformLeaderboardData.                                 *)
(***************************************************************************)
\* the entry of the view keeps the numbers of the wire entry
KeepsNumbers(view, entry) ==
    /\ view.rank = entry.rank
    /\ view.portfolioValue = entry.portfolio_value
    /\ view.totalReturn = entry.total_return
    /\ view.totalReturnPercent = entry.total_return_percent

\* C21: the leaderboard made from a snapshot frame has the length and the
\* order of the wire list, and every entry's rank, portfolioValue,
\* totalReturn and totalReturnPercent are the wire entry's rank,
\* portfolio_value, total_return and total_return_percent, for every number
\* including 0 and the negative ones.
C21_LosslessMapping ==
    received.kind \in {"wrapped", "array"} =>
        /\ Len(leaderboard) = Len(received.board)
        /\ \A i \in 1..Len(received.board) :
              KeepsNumbers(leaderboard[i], received.board[i])

(***************************************************************************)
(* Properties of the app context.                                          *)
(***************************************************************************)
\* a buyStock or sellStock call has just resolved, and no request of a
\* refresh has failed
TradeResolved ==
    /\ settled.op \in Trades
    /\ settled.outcome = "resolved"
    /\ state.error.portfolio = NULL
    /\ state.error.transactions = NULL

\* C22: when buyStock or sellStock of the context resolves, the portfolio
\* and the transactions have been fetched after the backend executed the
\* trade, so both show it, whatever refreshes were made shortly before.
C22_TradeRefreshesView ==
    TradeResolved =>
        /\ state.portfolio.loaded
        /\ state.portfolio.trades >= settled.traded
        /\ state.transactions >= settled.traded

\* the requests of a refresh kind that await their answer
Requests(cs, key) == Cardinality({i \in 1..Len(cs) : cs[i].pc = key})
IssuesRequest(key) == Requests(calls', key) > Requests(calls, key)

\* C23: a refresh issues its backend request only when at least its minimum
\* interval (stocks 30 s, portfolio 15 s, transactions 20 s) has passed
\* since the last refresh of its kind that issued one; lastRefreshTime
\* moves only with a request issued; a call made sooner is denied and
\* leaves lastRefreshTime where it was, and a call made at least the
\* interval after the last granted one is granted.
C23_RateLimit ==
    /\ [][\A key \in DOMAIN minInterval :
             /\ IssuesRequest(key) =>
                   /\ now - lastRefreshTime[key] >= minInterval[key]
                   /\ lastRefreshTime'[key] = now
             /\ lastRefreshTime'[key] # lastRefreshTime[key] =>
                   IssuesRequest(key)]_vars
    /\ [](\A l \in limited :
             /\ l.granted <=> now - l.lastTime >= minInterval[l.key]
             /\ l.granted => lastRefreshTime[l.key] = now
             /\ ~l.granted => lastRefreshTime[l.key] = l.lastTime)

\* a refresh is granted again, its interval after the one granted before
C23_Witness ==
    \E l \in limited :
        /\ l.granted
        /\ l.lastTime >= Epoch
        /\ Requests(calls, l.key) > 0

(***************************************************************************)
(* Properties of the order form and transactionAPI: authentication.        *)
(***************************************************************************)
\* C24: a buy or sell request goes to the backend only when an auth token
\* is stored; with no token transactionAPI rejects the order with its
\* 'must be logged in' error and sends nothing; and handleTrade with no
\* logged-in user passes no order on at all.
C24_NoTradeWithoutAuth ==
    /\ [][inFlight' > inFlight => token]_vars
    /\ [][submitted' # submitted =>
             /\ user # NULL
             /\ submitted'.sent = token
             /\ ~token =>
                   /\ submitted'.error \in {MustBeLoggedIn("buy"),
                                            MustBeLoggedIn("sell")}
                   /\ inFlight' = inFlight]_vars
    /\ [][user = NULL =>
             (submitted' = submitted /\ inFlight' <= inFlight)]_vars

\* the form passed an order on while no token was stored: it was rejected
C24_Witness ==
    /\ submitted.op # "none"
    /\ ~submitted.sent
    /\ submitted.error = MustBeLoggedIn(submitted.op)
    /\ user # NULL
    /\ ~token
    /\ inFlight = 0

(***************************************************************************)
(* Properties of the middleware and the token.                             *)
(***************************************************************************)
\* the middleware answers a request for pathname
Answers == response' # response

\* C25: over logins, logouts and page requests, a request for /portfolio,
\* /trade or /settings passes the middleware only if setToken was the last
\* token operation, and is otherwise redirected to /login with the
\* requested path as redirect; and localStorage and the cookie agree at all
\* times on whether a token is stored.
C25_TokenLifecycle ==
    /\ [][(Answers /\ isProtectedPage(response'.path)) =>
             /\ response'.kind = "next" => lastTokenOp = "setToken"
             /\ lastTokenOp # "setToken" =>
                   response' = Redirect(response'.path, "/login",
                                        response'.path)]_vars
    /\ [](token <=> isAuthenticated)

(***************************************************************************)
(* Properties of useLeaderboardWebSocket: progress and single connection.  *)
(***************************************************************************)
\* a reconnect timer is pending
TimerPending == \E t \in timers : t.ref

\* C26: while the hook is mounted, isConnected is false and error is null,
\* a connection attempt is in progress or a reconnect timer is pending, so
\* the session goes on to connect or to report an error and the page's
\* 'Connecting...' state ends.
C26_NeverSilentlyStuck ==
    (mounted /\ ~isConnected /\ wsError = NULL) =>
        (ws = "connecting" \/ TimerPending)

(***************************************************************************)
(* Properties of the app context: the loading flag and logout.             *)
(***************************************************************************)
\* a buyStock or sellStock call has just settled and no call that set
\* isLoading.portfolio awaits a response
Quiet ==
    /\ settled.op \in Trades
    /\ \A i \in 1..Len(calls) : calls[i].pc \notin {"trade", "portfolio"}
                                /\ calls[i].op \notin Trades

\* C27: once a buyStock or sellStock call has settled, resolved or rejected,
\* and no other portfolio request is in flight, state.isLoading.portfolio is
\* false.
C27_LoadingCleared == Quiet => ~state.isLoading.portfolio

\* C28: after logout() and until the next login, state.user is null,
\* state.portfolio is null and state.transactions is empty, also when a
\* refreshPortfolio or refreshTransactions request that started before the
\* logout is answered after it.
C28_LogoutFinal ==
    lastTokenOp = "removeToken" =>
        /\ user = NULL
        /\ state.portfolio = NullPortfolio
        /\ state.transactions = 0

\* C29: over any interleaving of open, close, error, timer and reconnect()
\* events, at most one reconnect timer is pending, at most one WebSocket has
\* the hook's handlers attached, and no reconnect timer is pending while
\* the socket is connecting or open.
C29_SingleConnection ==
    /\ Cardinality(timers) <= 1
    /\ attached <= 1
    /\ ws \in {"connecting", "open"} => timers = {}

\* reconnect() was called after a failure, before the reconnect timer fired:
\* a new socket is connecting and the timer is gone
C29_Witness ==
    /\ mounted
    /\ ws = "connecting"
    /\ lastClose = 1006
    /\ reconnectAttempts = 0
    /\ timers = {}
    /\ attached = 1

====
